---- MODULE Spec2Model ----
(***************************************************************************)
(* Model of wine-quality-hyperparameter.ipynb: the load/prepare cell and   *)
(* the Optuna study that study.optimize(objective, n_trials, callbacks=    *)
(* [mlflc]) drives over the MLflow-tracked ElasticNet objective.           *)
(*                                                                         *)
(* Hyperparameter values are integers in units of 0.025 (half a step), so  *)
(* that the sampler's raw range [low - step/2, high + step/2] and the      *)
(* rounding to the step grid are exact: 0.05 is 2, 1.0 is 40, step is 2.   *)
(***************************************************************************)
EXTENDS Integers, Sequences, FiniteSets

\* ---- bounds of the model ------------------------------------------------
MaxTrials == 3      \* n_trials ranges over 0..MaxTrials
MaxScore == 2       \* rmse values range over 1..MaxScore
MaxDraw == 0        \* raw draws lie within MaxDraw of either end of the range
MaxRuns == 2        \* executions of the notebook

\* ---- program constants (src lines 206-207), in units of 0.025 -----------
LOW == 2
HIGH == 40
STEP == 2
RANDOM_STATE == 42

VARIABLES
    pc,             \* position of the notebook's execution
    n_trials,       \* the n_trials argument of study.optimize
    data,           \* local variable data of load(): "unbound" or "frame"
    printed,        \* sequence of print() calls, each the tuple of its arguments
    prepared,       \* prepare(data) and train_test_split have run
    split_seed,     \* random_state the split was made with (0: no split)
    trials,         \* study.trials: sequence of trial records
    best_trial_id,  \* storage's best_trial_id: 0 is None, else index into trials
    i_trial,        \* loop counter of the sequential optimise loop
    ret,            \* value the objective is about to return (0: none)
    err,            \* exception in flight or that ended the run ("none" if none)
    rmse_memo,      \* scores the fixed split yields: set of <<alpha, l1_ratio, rmse>>
    run,            \* which execution of the notebook this is
    prev            \* outcome of the previous execution

vars == <<pc, n_trials, data, printed, prepared, split_seed, trials,
          best_trial_id, i_trial, ret, err, rmse_memo, run, prev>>

\* ---- sampling: trial.suggest_float(name, 0.05, 1.0, step=0.05) -----------

\* FloatDistribution lowers high to the last grid point reachable from low.
AdjustHigh(low, high, step) == low + ((high - low) \div step) * step

\* numpy.round of x/step: to the nearest integer, a tie going to the even one.
RoundHalfEven(x, step) ==
    LET q == x \div step
        r == x % step
    IN  IF 2 * r < step THEN q
        ELSE IF 2 * r > step THEN q + 1
        ELSE IF q % 2 = 0 THEN q ELSE q + 1

Clip_none(v, lo, hi) == v

\* numpy.clip
Clip(v, lo, hi) == IF v < lo THEN lo ELSE IF v > hi THEN hi ELSE v

\* The sampler draws in [low - step/2, high + step/2].
RawLow == LOW - STEP \div 2
RawHigh == AdjustHigh(LOW, HIGH, STEP) + STEP \div 2

\* Raw draws the model enumerates: those within MaxDraw of an end of the range.
Draws == {r \in RawLow..RawHigh : r <= RawLow + MaxDraw \/ r >= RawHigh - MaxDraw}

\* A raw draw is rounded to the step grid and clipped to [low, high].
suggest_float(raw) ==
    Clip(RoundHalfEven(raw - LOW, STEP) * STEP + LOW,
         LOW, AdjustHigh(LOW, HIGH, STEP))

\* ---- the study's storage -------------------------------------------------

Scores == 1..MaxScore

\* A trial as study.ask() creates it: number is its 0-based ordinal; alpha,
\* l1_ratio and value are 0 until set; mlrun is the MLflow run of the trial;
\* logged tells whether the callback has reported its metric and parameters.
NewTrial_onebased(ts) ==
    [number |-> Len(ts) + 1, state |-> "RUNNING", alpha |-> 0, l1_ratio |-> 0,
     value |-> 0, mlrun |-> "none", logged |-> FALSE]

NewTrial(ts) ==
    [number |-> Len(ts), state |-> "RUNNING", alpha |-> 0, l1_ratio |-> 0,
     value |-> 0, mlrun |-> "none", logged |-> FALSE]

UpdateCache_maximize(ts, best, id) ==
    IF ts[id].state # "COMPLETE" THEN best
    ELSE IF best = 0 THEN id
    ELSE IF ts[best].value < ts[id].value THEN id ELSE best

UpdateCache_ge(ts, best, id) ==
    IF ts[id].state # "COMPLETE" THEN best
    ELSE IF best = 0 THEN id
    ELSE IF ts[best].value >= ts[id].value THEN id ELSE best

UpdateCache_anystate(ts, best, id) ==
    IF best = 0 THEN id
    ELSE IF ts[best].value > ts[id].value THEN id ELSE best

\* The storage's best-trial update for direction="minimize": trial id replaces
\* the best only when the best's value is strictly greater.
UpdateCache(ts, best, id) ==
    IF ts[id].state # "COMPLETE" THEN best
    ELSE IF best = 0 THEN id
    ELSE IF ts[best].value > ts[id].value THEN id ELSE best

\* study.best_trial: raises ValueError when no trial is completed.
best_trial ==
    IF best_trial_id = 0
    THEN [raises |-> "ValueError", number |-> 0, value |-> 0]
    ELSE [raises |-> "none", number |-> trials[best_trial_id].number,
          value |-> trials[best_trial_id].value]

LoopEnds_offbyone == i_trial > n_trials

\* The sequential loop's exit test, made before each trial.
LoopEnds == i_trial >= n_trials

Last == Len(trials)

SetLast_first(f) == [trials EXCEPT ![1] = f]

\* The history with its newest trial, the one in progress, replaced by f.
SetLast(f) == [trials EXCEPT ![Last] = f]

Configs(ts) == [i \in 1..Len(ts) |-> <<ts[i].alpha, ts[i].l1_ratio>>]

NoPrev == [finished |-> FALSE, configs |-> <<>>, best_value |-> 0]

\* ---- the initial state: a fresh kernel about to run the notebook ----------
Init ==
    /\ pc = "load_try"
    /\ n_trials \in 0..MaxTrials
    /\ data = "unbound"
    /\ printed = <<>>
    /\ prepared = FALSE
    /\ split_seed = 0
    /\ trials = <<>>
    /\ best_trial_id = 0
    /\ i_trial = 0
    /\ ret = 0
    /\ err = "none"
    /\ rmse_memo = {}
    /\ run = 1
    /\ prev = NoPrev

\* ---- cell 4: data = load(); x, y = prepare(data); train_test_split --------

\* load(): pd.read_csv succeeds and binds data.
LoadTryOk ==
    /\ pc = "load_try"
    /\ data' = "frame"
    /\ pc' = "load_return"
    /\ UNCHANGED <<n_trials, printed, prepared, split_seed, trials, best_trial_id,
                   i_trial, ret, err, rmse_memo, run, prev>>

\* load(): pd.read_csv raises; the except block prints the message and the
\* exception as two arguments and falls through, data still unbound.
LoadTryRaise ==
    /\ pc = "load_try"
    /\ printed' = Append(printed, <<"Unable to download ... Error: %s", "e">>)
    /\ pc' = "load_return"
    /\ UNCHANGED <<n_trials, data, prepared, split_seed, trials, best_trial_id,
                   i_trial, ret, err, rmse_memo, run, prev>>

LoadReturn_none ==
    /\ pc = "load_return"
    /\ pc' = "prepare"
    /\ UNCHANGED <<n_trials, data, printed, prepared, split_seed, trials,
                   best_trial_id, i_trial, ret, err, rmse_memo, run, prev>>

\* load(): return data. Reading the unbound local raises UnboundLocalError,
\* which nothing catches: the cell, and the notebook's execution, stop.
LoadReturn ==
    /\ pc = "load_return"
    /\ IF data = "unbound"
       THEN pc' = "aborted" /\ err' = "UnboundLocalError"
       ELSE pc' = "prepare" /\ err' = err
    /\ UNCHANGED <<n_trials, data, printed, prepared, split_seed, trials,
                   best_trial_id, i_trial, ret, rmse_memo, run, prev>>

\* prepare(data) and train_test_split(..., random_state=RANDOM_STATE).
PrepareSplit ==
    /\ pc = "prepare"
    /\ prepared' = TRUE
    /\ split_seed' = RANDOM_STATE
    /\ pc' = "create_study"
    /\ UNCHANGED <<n_trials, data, printed, trials, best_trial_id, i_trial, ret,
                   err, rmse_memo, run, prev>>
\* ---- cell 8: optuna.create_study(direction="minimize", ...) ---------------
CreateStudy ==
    /\ pc = "create_study"
    /\ trials' = <<>>
    /\ best_trial_id' = 0
    /\ i_trial' = 0
    /\ pc' = "optimize"
    /\ UNCHANGED <<n_trials, data, printed, prepared, split_seed, ret, err,
                   rmse_memo, run, prev>>

\* ---- study.optimize(objective, n_trials=..., callbacks=[mlflc]) -----------

\* The loop has run n_trials trials: optimize returns.
Finish ==
    /\ pc = "optimize"
    /\ LoopEnds
    /\ pc' = "done"
    /\ UNCHANGED <<n_trials, data, printed, prepared, split_seed, trials,
                   best_trial_id, i_trial, ret, err, rmse_memo, run, prev>>

\* One more trial: the counter advances and study.ask() appends a RUNNING
\* trial; the objective (the track_in_mlflow wrapper) is then called with it.
Ask ==
    /\ pc = "optimize"
    /\ ~LoopEnds
    /\ i_trial' = i_trial + 1
    /\ trials' = Append(trials, NewTrial(trials))
    /\ pc' = "wrapper"
    /\ UNCHANGED <<n_trials, data, printed, prepared, split_seed, best_trial_id,
                   ret, err, rmse_memo, run, prev>>

\* Wrapper: mlflow.start_run(run_name=str(trial.number)) opens the trial's run.
StartRunOk ==
    /\ pc = "wrapper"
    /\ trials' = SetLast([trials[Last] EXCEPT !.mlrun = "active"])
    /\ pc' = "suggest"
    /\ UNCHANGED <<n_trials, data, printed, prepared, split_seed, best_trial_id,
                   i_trial, ret, err, rmse_memo, run, prev>>

\* Wrapper: the tracking server refuses; the exception leaves the objective.
StartRunFail ==
    /\ pc = "wrapper"
    /\ err' = "MlflowException"
    /\ pc' = "func_raised"
    /\ UNCHANGED <<n_trials, data, printed, prepared, split_seed, trials,
                   best_trial_id, i_trial, ret, rmse_memo, run, prev>>

\* objective: the two trial.suggest_float calls. The study's sampler is not
\* seeded, so each raw draw is any point of the sampler's range.
Suggest ==
    /\ pc = "suggest"
    /\ \E ra \in Draws, rl \in Draws :
         trials' = SetLast([trials[Last] EXCEPT !.alpha = suggest_float(ra),
                                                !.l1_ratio = suggest_float(rl)])
    /\ pc' = "fit"
    /\ UNCHANGED <<n_trials, data, printed, prepared, split_seed, best_trial_id,
                   i_trial, ret, err, rmse_memo, run, prev>>

\* objective: ElasticNet(**params).fit(x_train, y_train) returns.
FitOk ==
    /\ pc = "fit"
    /\ pc' = "log_model"
    /\ UNCHANGED <<n_trials, data, printed, prepared, split_seed, trials,
                   best_trial_id, i_trial, ret, err, rmse_memo, run, prev>>

FitRaise_leak ==
    /\ pc = "fit"
    /\ err' = "ValueError"
    /\ pc' = "func_raised"
    /\ UNCHANGED <<n_trials, data, printed, prepared, split_seed, trials,
                   best_trial_id, i_trial, ret, rmse_memo, run, prev>>

\* objective: the fit raises; leaving the with block ends the run as FAILED.
FitRaise ==
    /\ pc = "fit"
    /\ err' = "ValueError"
    /\ trials' = SetLast([trials[Last] EXCEPT !.mlrun = "FAILED"])
    /\ pc' = "func_raised"
    /\ UNCHANGED <<n_trials, data, printed, prepared, split_seed, best_trial_id,
                   i_trial, ret, rmse_memo, run, prev>>

\* objective: mlflow.sklearn.log_model(model, "model") returns.
LogModelOk ==
    /\ pc = "log_model"
    /\ pc' = "score"
    /\ UNCHANGED <<n_trials, data, printed, prepared, split_seed, trials,
                   best_trial_id, i_trial, ret, err, rmse_memo, run, prev>>

\* objective: logging the model to the tracker raises.
LogModelFail ==
    /\ pc = "log_model"
    /\ err' = "MlflowException"
    /\ trials' = SetLast([trials[Last] EXCEPT !.mlrun = "FAILED"])
    /\ pc' = "func_raised"
    /\ UNCHANGED <<n_trials, data, printed, prepared, split_seed, best_trial_id,
                   i_trial, ret, rmse_memo, run, prev>>

\* objective: predict, rmse, return. The score is a function of the
\* configuration for the fixed split: a configuration scored before scores
\* the same again. Leaving the with block ends the run as FINISHED.
Score ==
    /\ pc = "score"
    /\ \E s \in Scores :
         LET a == trials[Last].alpha
             l == trials[Last].l1_ratio
         IN  /\ \A m \in rmse_memo : (m[1] = a /\ m[2] = l) => m[3] = s
             /\ rmse_memo' = rmse_memo \cup {<<a, l, s>>}
             /\ ret' = s
    /\ trials' = SetLast([trials[Last] EXCEPT !.mlrun = "FINISHED"])
    /\ pc' = "tell"
    /\ UNCHANGED <<n_trials, data, printed, prepared, split_seed, best_trial_id,
                   i_trial, err, run, prev>>

\* The objective returned: the trial becomes COMPLETE with the value, and
\* the storage updates its best trial.
Tell ==
    /\ pc = "tell"
    /\ trials' = SetLast([trials[Last] EXCEPT !.state = "COMPLETE", !.value = ret])
    /\ best_trial_id' = UpdateCache(trials', best_trial_id, Last)
    /\ ret' = 0
    /\ pc' = "callback"
    /\ UNCHANGED <<n_trials, data, printed, prepared, split_seed, i_trial, err,
                   rmse_memo, run, prev>>

TellFail_catch ==
    /\ pc = "func_raised"
    /\ trials' = SetLast([trials[Last] EXCEPT !.state = "FAIL"])
    /\ best_trial_id' = UpdateCache(trials', best_trial_id, Last)
    /\ err' = "none"
    /\ pc' = "optimize"
    /\ UNCHANGED <<n_trials, data, printed, prepared, split_seed, i_trial, ret,
                   rmse_memo, run, prev>>

TellFail_running ==
    /\ pc = "func_raised"
    /\ pc' = "aborted"
    /\ UNCHANGED <<n_trials, data, printed, prepared, split_seed, trials,
                   best_trial_id, i_trial, ret, err, rmse_memo, run, prev>>

\* The objective raised: the trial becomes FAIL, and since optimize was given
\* no catch argument the exception is raised again out of optimize.
TellFail ==
    /\ pc = "func_raised"
    /\ trials' = SetLast([trials[Last] EXCEPT !.state = "FAIL"])
    /\ best_trial_id' = UpdateCache(trials', best_trial_id, Last)
    /\ pc' = "aborted"
    /\ UNCHANGED <<n_trials, data, printed, prepared, split_seed, i_trial, ret,
                   err, rmse_memo, run, prev>>

CallbackOk_deferred ==
    /\ pc = "callback"
    /\ pc' = "optimize"
    /\ UNCHANGED <<n_trials, data, printed, prepared, split_seed, trials,
                   best_trial_id, i_trial, ret, err, rmse_memo, run, prev>>

\* callbacks=[mlflc]: the callback logs the trial's metric, parameters and
\* tags to the trial's MLflow run, and the loop goes round.
CallbackOk ==
    /\ pc = "callback"
    /\ trials' = SetLast([trials[Last] EXCEPT !.logged = TRUE])
    /\ pc' = "optimize"
    /\ UNCHANGED <<n_trials, data, printed, prepared, split_seed, best_trial_id,
                   i_trial, ret, err, rmse_memo, run, prev>>

\* The callback's report raises: nothing catches it and optimize ends.
CallbackFail ==
    /\ pc = "callback"
    /\ err' = "MlflowException"
    /\ pc' = "aborted"
    /\ UNCHANGED <<n_trials, data, printed, prepared, split_seed, trials,
                   best_trial_id, i_trial, ret, rmse_memo, run, prev>>

\* ---- the notebook is executed again in a fresh kernel --------------------
BestValue == IF best_trial_id = 0 THEN 0 ELSE trials[best_trial_id].value

Rerun ==
    /\ pc \in {"done", "aborted"}
    /\ run < MaxRuns
    /\ run' = run + 1
    /\ prev' = [finished |-> pc = "done", configs |-> Configs(trials),
                best_value |-> BestValue]
    /\ pc' = "load_try"
    /\ data' = "unbound"
    /\ printed' = <<>>
    /\ prepared' = FALSE
    /\ split_seed' = 0
    /\ trials' = <<>>
    /\ best_trial_id' = 0
    /\ i_trial' = 0
    /\ ret' = 0
    /\ err' = "none"
    /\ UNCHANGED <<n_trials, rmse_memo>>

Next ==
    \/ LoadTryOk \/ LoadTryRaise \/ LoadReturn \/ PrepareSplit \/ CreateStudy
    \/ Finish \/ Ask \/ StartRunOk \/ StartRunFail \/ Suggest
    \/ FitOk \/ FitRaise \/ LogModelOk \/ LogModelFail \/ Score
    \/ Tell \/ TellFail \/ CallbackOk \/ CallbackFail

\* One execution of the notebook.
Spec == Init /\ [][Next]_vars

\* One execution in which every call returns or raises: the kernel runs the
\* cells one statement after the other and nothing waits on anything else.
SpecFair == Init /\ [][Next]_vars /\ WF_vars(Next)

NextRerun == Next \/ Rerun

\* Up to MaxRuns executions of the notebook, one after the other.
SpecRerun == Init /\ [][NextRerun]_vars

TypeOK ==
    /\ pc \in {"load_try", "load_return", "prepare", "create_study", "optimize",
               "wrapper", "suggest", "fit", "log_model", "score", "tell",
               "func_raised", "callback", "done", "aborted"}
    /\ n_trials \in 0..MaxTrials
    /\ i_trial \in 0..MaxTrials
    /\ best_trial_id \in 0..Len(trials)
    /\ ret \in 0..MaxScore
    /\ err \in {"none", "UnboundLocalError", "ValueError", "MlflowException"}
    /\ run \in 1..MaxRuns
\* ---- properties -----------------------------------------------------------

Completed == {i \in 1..Len(trials) : trials[i].state = "COMPLETE"}
Failed == {i \in 1..Len(trials) : trials[i].state = "FAIL"}

\* C1: whenever some trial is completed, the study has a best trial, it is a
\* completed one, and its score is <= the score of every completed trial.
C1_BestIsMinimum ==
    \A i \in Completed :
        /\ best_trial_id \in Completed
        /\ trials[best_trial_id].value <= trials[i].value

C1_Witness ==
    /\ Len(trials) >= 2
    /\ Completed = {1, 2}
    /\ trials[2].value < trials[1].value
    /\ best_trial_id = 2

\* C2: a completed trial whose score is as low as the best trial's never has
\* a smaller index than the best trial: a tie keeps the earlier trial.
C2_TieKeepsEarliest ==
    best_trial_id # 0 =>
        \A i \in Completed :
            trials[i].value <= trials[best_trial_id].value => best_trial_id <= i

C2_Witness ==
    /\ Completed = {1, 2}
    /\ trials[1].value = trials[2].value
    /\ best_trial_id = 1

\* C3: a run with n_trials >= 1 that reaches the end of optimize has exactly
\* n_trials trial records, numbered 0..n_trials-1 in order, and the completed
\* ones number n_trials minus the failed ones.
C3_ExactlyNTrials ==
    (pc = "done" /\ n_trials >= 1) =>
        /\ Len(trials) = n_trials
        /\ \A i \in 1..Len(trials) : trials[i].number = i - 1
        /\ Cardinality(Completed) = n_trials - Cardinality(Failed)

C3_Witness == pc = "done" /\ n_trials >= 2 /\ Len(trials) = n_trials

OnGrid(v) == v >= LOW /\ v <= HIGH /\ \E k \in 1..20 : v = k * STEP

Sampled(t) == t.alpha # 0 \/ t.l1_ratio # 0

\* C4: every trial record that has been given its parameters has alpha and
\* l1_ratio in [0.05, 1.0] on the grid 0.05*k, k in 1..20, and the objective
\* never fits, logs or scores a trial whose parameters are off that grid.
C4_ParamsOnGrid ==
    /\ \A i \in 1..Len(trials) :
         Sampled(trials[i]) => OnGrid(trials[i].alpha) /\ OnGrid(trials[i].l1_ratio)
    /\ pc \in {"fit", "log_model", "score", "tell", "callback"} =>
         OnGrid(trials[Last].alpha) /\ OnGrid(trials[Last].l1_ratio)

C4_Witness ==
    /\ pc = "fit"
    /\ trials[Last].alpha = HIGH
    /\ trials[Last].l1_ratio = LOW

\* C5 as amended: when the objective raises, the trial is marked FAIL, the
\* best trial is unchanged and is not that trial, and the exception leaves
\* optimize: the run ends with it and no further trial is started.
C5_ObjectiveErrorFailsTrialEndsRun ==
    [][(pc = "func_raised" /\ err = "ValueError") =>
         /\ Len(trials') = Len(trials)
         /\ trials'[Last].state = "FAIL"
         /\ best_trial_id' = best_trial_id
         /\ best_trial_id' # Last
         /\ pc' = "aborted"
         /\ err' = "ValueError"]_vars

C5_Witness ==
    /\ pc = "aborted"
    /\ err = "ValueError"
    /\ Len(trials) >= 2
    /\ trials[Last].state = "FAIL"
    /\ best_trial_id = 1
    /\ i_trial < n_trials

\* C5 as stated: when the objective raises, the trial is marked FAIL, the
\* best trial is unchanged, and the loop goes on to the next trial.
C5_ObjectiveErrorContinues ==
    [][(pc = "func_raised" /\ err = "ValueError") =>
         /\ trials'[Last].state = "FAIL"
         /\ best_trial_id' = best_trial_id
         /\ pc' = "optimize"]_vars

\* C6: once a call to the tracker has failed, the exception stays the run's
\* outcome: the run ends with it, and no trial is started or counted after.
C6_TrackerFailureEndsRun ==
    [][(err = "MlflowException" /\ run' = run) =>
         /\ err' = "MlflowException"
         /\ pc' = "aborted"
         /\ Len(trials') = Len(trials)
         /\ i_trial' = i_trial]_vars

C6_Witness ==
    /\ pc = "aborted"
    /\ err = "MlflowException"
    /\ Len(trials) >= 1
    /\ i_trial < n_trials

\* C7: a trial is started only when every earlier trial has been evaluated
\* (it is no longer RUNNING and its MLflow run is closed) and reported by the
\* callback; so at most one trial is ever in progress.
C7_TrialsDoNotOverlap ==
    [][(Len(trials') = Len(trials) + 1) =>
         \A i \in 1..Len(trials) :
             /\ trials[i].state # "RUNNING"
             /\ trials[i].mlrun = "FINISHED"
             /\ trials[i].logged]_vars

C7_Witness == Len(trials) = 2 /\ pc = "suggest"

\* C8: a run with n_trials = 0 ends with an empty trial history and no best
\* trial: the storage's best is None and study.best_trial raises.
C8_ZeroTrials ==
    (pc = "done" /\ n_trials = 0) =>
        /\ trials = <<>>
        /\ best_trial_id = 0
        /\ best_trial.raises = "ValueError"

C8_Witness == pc = "done" /\ n_trials = 0

\* C9: two completed executions of the notebook, with the same RANDOM_STATE,
\* the same split and the same n_trials, have the same sequence of sampled
\* configurations and the same best score.
C9_Reproducible ==
    (pc = "done" /\ prev.finished /\ split_seed = RANDOM_STATE) =>
        /\ Configs(trials) = prev.configs
        /\ BestValue = prev.best_value

\* C10 as amended: when pd.read_csv raises, load() prints the message and
\* the exception and does not re-raise it, but its return statement then
\* raises UnboundLocalError: the run stops there, prepare() is never called
\* and no study is run.
C10_LoadFailureAborts ==
    Len(printed) > 0 =>
        /\ printed = <<<<"Unable to download ... Error: %s", "e">>>>
        /\ data = "unbound"
        /\ pc \in {"load_return", "aborted"}
        /\ pc = "aborted" => err = "UnboundLocalError"
        /\ ~prepared
        /\ trials = <<>>

C10_Witness == Len(printed) > 0 /\ pc = "aborted" /\ err = "UnboundLocalError"

\* C10 as stated: when pd.read_csv raises, load() logs the exception and
\* execution continues past load() into prepare() with the dataset undefined.
C10_LoadFailureContinues ==
    [][(pc = "load_return" /\ data = "unbound") =>
         (Len(printed) > 0 /\ pc' = "prepare" /\ err' = "none")]_vars
InObjective == pc \in {"suggest", "fit", "log_model", "score"}

Record(t) ==
    [number |-> t.number, alpha |-> t.alpha, l1_ratio |-> t.l1_ratio,
     value |-> t.value, state |-> t.state]

\* C13: no step shortens the history or changes a trial older than the newest
\* one, and a completed trial's index, configuration, score and status are
\* the same after every step.
C13_CompletedTrialsImmutable ==
    [][/\ Len(trials') >= Len(trials)
       /\ \A i \in 1..Len(trials) :
            /\ i < Len(trials) => trials'[i] = trials[i]
            /\ trials[i].state = "COMPLETE" =>
                   Record(trials'[i]) = Record(trials[i])]_vars

C13_Witness ==
    /\ Len(trials) = 3
    /\ trials[1].state = "COMPLETE"
    /\ trials[2].state = "COMPLETE"
    /\ trials[3].state = "COMPLETE"
    /\ trials[3].logged

\* C15: over a run the best score never increases; the best trial changes
\* only at the step that completes a trial, to that trial, and if there was
\* a best already only when the new score is strictly lower; a failing trial
\* leaves the best trial as it was; and the best trial is always a completed
\* trial of the history.
C15_BestMonotone ==
    [][/\ best_trial_id # 0 =>
            /\ best_trial_id' # 0
            /\ trials'[best_trial_id'].value <= trials[best_trial_id].value
       /\ best_trial_id' # best_trial_id =>
            /\ pc = "tell"
            /\ best_trial_id' = Len(trials')
            /\ trials[best_trial_id'].state = "RUNNING"
            /\ trials'[best_trial_id'].state = "COMPLETE"
            /\ best_trial_id # 0 =>
                   trials'[best_trial_id'].value < trials[best_trial_id].value
       /\ pc = "func_raised" => best_trial_id' = best_trial_id
       /\ best_trial_id' # 0 =>
            /\ best_trial_id' \in 1..Len(trials')
            /\ trials'[best_trial_id'].state = "COMPLETE"]_vars

C15_Witness ==
    /\ Len(trials) = 3
    /\ trials[1].state = "COMPLETE"
    /\ trials[2].state = "COMPLETE"
    /\ trials[2].value < trials[1].value
    /\ trials[3].state = "FAIL"
    /\ best_trial_id = 2
Terminal == pc \in {"done", "aborted"}

\* C14 as amended: once the study is created the loop always terminates,
\* either returning (done) or with an exception raised out of optimize
\* (aborted); nothing happens after either; it returns only with n_trials
\* trials in the history, all completed, and it ends otherwise only with an
\* exception.
C14_TerminatesDoneOrRaised ==
    /\ (pc = "optimize") ~> Terminal
    /\ [][~Terminal]_vars
    /\ [](pc = "done" => (Len(trials) = n_trials /\ Completed = 1..n_trials))
    /\ [](pc = "aborted" => err # "none")

C14_Witness ==
    /\ pc = "aborted"
    /\ err = "MlflowException"
    /\ trials[Last].state = "COMPLETE"
    /\ Len(trials) < n_trials

\* C14 as stated: the loop stops only when n_trials trials have been
\* completed; every run of the loop eventually reaches the done state, and
\* it is in the done state only with n_trials trials in the history.
C14_AlwaysReachesDone ==
    /\ [](Terminal => Cardinality(Completed) = n_trials)
    /\ (pc = "optimize") ~> (pc = "done")
    /\ [](pc = "done" => Len(trials) = n_trials)
====
